---- MODULE Spec2Model ----
(***************************************************************************)
(* Model of the cashbook persistence store (src/src/cashbook_manager.py)   *)
(* and its record model (src/src/models.py).                               *)
(*                                                                         *)
(* Strings are sequences of code points (32 is the space).  A timestamp is *)
(* a natural number read from the clock `now`.  A JSON file is a record    *)
(* [kind, data]: kind "absent" (no file), "json" (an object keyed by       *)
(* record id), "list" (valid JSON that is not an object), "garbage" (does  *)
(* not parse) or "unreadable" (open() raises OSError).                     *)
(***************************************************************************)
EXTENDS Integers, Sequences, FiniteSets, TLC

\* ---------------------------------------------------------------- bounds
MaxOps == 2          \* calls made on the stores of one directory

\* ------------------------------------------------------ program constants
MaxNameLen == 100    \* models.py:46
RecentCap == 10      \* cashbook_manager.py:327

SP == 32             \* the blank that str.strip() removes

\* ------------------------------------------------------------- strings
Rep(c, n) == [i \in 1..n |-> c]

RECURSIVE LStrip(_)
LStrip(s) == IF s # <<>> /\ Head(s) = SP THEN LStrip(Tail(s)) ELSE s

RECURSIVE RStrip(_)
RStrip(s) ==
    IF s # <<>> /\ s[Len(s)] = SP THEN RStrip(SubSeq(s, 1, Len(s) - 1)) ELSE s

Strip(s) == RStrip(LStrip(s))

\* lexicographic order on strings, as Python compares str
RECURSIVE StrLess(_, _)
StrLess(a, b) ==
    IF b = <<>> THEN FALSE
    ELSE IF a = <<>> THEN TRUE
    ELSE IF Head(a) # Head(b) THEN Head(a) < Head(b)
    ELSE StrLess(Tail(a), Tail(b))

RECURSIVE SortedStrings(_)
SortedStrings(S) ==
    IF S = {} THEN <<>>
    ELSE LET m == CHOOSE x \in S : \A y \in S \ {x} : StrLess(x, y)
         IN  <<m>> \o SortedStrings(S \ {m})

\* list.remove(x): drops the first occurrence only
RECURSIVE RemoveFirst(_, _)
RemoveFirst(s, x) ==
    IF s = <<>> THEN <<>>
    ELSE IF Head(s) = x THEN Tail(s)
    ELSE <<Head(s)>> \o RemoveFirst(Tail(s), x)

InSeq(s, x) == \E i \in 1..Len(s) : s[i] = x

Take(s, n) == SubSeq(s, 1, IF Len(s) < n THEN Len(s) ELSE n)

\* --------------------------------------------------------- record model
\* Cashbook.__post_init__: the verdict of the validation
Validate(r) ==
    IF r.name = <<>> \/ Strip(r.name) = <<>> THEN "ValueError"
    ELSE IF Len(Strip(r.name)) > MaxNameLen THEN "ValueError"
    ELSE IF r.entry_count < 0 THEN "ValueError"
    ELSE "ok"

\* Cashbook.__post_init__: the record it leaves when validation passes
PostInit(r) == [r EXCEPT !.name = Strip(r.name)]

\* datetime.isoformat(); a JSON value in a date field is [fmt, t]
IsoFormat(t) == [fmt |-> "iso", t |-> t]
BadDate == [fmt |-> "bad", t |-> 0]
NullDate == [fmt |-> "null", t |-> 0]

\* to_dict writing the creation time under both date keys
ToDictOneDate(r) ==
    [id |-> r.id, name |-> r.name, description |-> r.description,
     category |-> r.category,
     created_date |-> IsoFormat(r.created_date),
     last_modified |-> IsoFormat(r.created_date),
     entry_count |-> r.entry_count]

\* Cashbook.to_dict
ToDict(r) ==
    [id |-> r.id, name |-> r.name, description |-> r.description,
     category |-> r.category,
     created_date |-> IsoFormat(r.created_date),
     last_modified |-> IsoFormat(r.last_modified),
     entry_count |-> r.entry_count]

\* a JSON value that is no string (a number) where the name is expected
NotAString == <<-1>>

NoRecord ==
    [id |-> 0, name |-> <<>>, description |-> <<>>, category |-> <<>>,
     created_date |-> 0, last_modified |-> 0, entry_count |-> 0]

\* Cashbook.from_dict: [err, rec]; err is "ok" or the exception raised
FromDict(d) ==
    IF ~ ({"created_date", "last_modified", "id", "name"} \subseteq DOMAIN d)
    THEN [err |-> "KeyError", rec |-> NoRecord]
    ELSE IF d.created_date.fmt # "iso" \/ d.last_modified.fmt # "iso"
    THEN [err |-> "ValueError", rec |-> NoRecord]
    ELSE IF d.name = NotAString
    THEN [err |-> "AttributeError", rec |-> NoRecord]
    ELSE LET r == [id |-> d.id, name |-> d.name,
                   description |-> IF "description" \in DOMAIN d
                                   THEN d.description ELSE <<>>,
                   category |-> IF "category" \in DOMAIN d THEN d.category ELSE <<>>,
                   created_date |-> d.created_date.t,
                   last_modified |-> d.last_modified.t,
                   entry_count |-> IF "entry_count" \in DOMAIN d
                                   THEN d.entry_count ELSE 0]
         IN  IF Validate(r) # "ok"
             THEN [err |-> "ValueError", rec |-> NoRecord]
             ELSE [err |-> "ok", rec |-> PostInit(r)]

NoBackupYet == -1    \* last_backup is None
\* CashbookMetadata()
DefaultMetadata ==
    [total_cashbooks |-> 0, recent_activity |-> <<>>, categories |-> <<>>,
     last_backup |-> NoBackupYet]

\* CashbookMetadata.to_dict
MetaToDict(m) ==
    [total_cashbooks |-> m.total_cashbooks, recent_activity |-> m.recent_activity,
     categories |-> m.categories,
     last_backup |-> IF m.last_backup = NoBackupYet THEN NullDate
                     ELSE IsoFormat(m.last_backup)]

\* CashbookMetadata.from_dict: [err, meta]
MetaFromDict(d) ==
    IF d.last_backup.fmt = "bad"
    THEN [err |-> "ValueError", meta |-> DefaultMetadata]
    ELSE [err |-> "ok",
          meta |-> [total_cashbooks |-> d.total_cashbooks,
                    recent_activity |-> d.recent_activity,
                    categories |-> d.categories,
                    last_backup |-> IF d.last_backup.fmt = "null" THEN NoBackupYet
                                    ELSE d.last_backup.t]]

\* ------------------------------------------------------------ the store
VARIABLES
    phase,             \* "start" | "corrupt" | "recovering" | "loaded"
    cashbooks,         \* self._cashbooks: id -> record
    metadata,          \* self._metadata
    cashbooksFile,     \* cashbooks.json
    metadataFile,      \* metadata.json
    corruptedBackups,  \* corrupted_backups/: per file, a set of [ts, content]
    backups,           \* backups/: a set of [ts, content] written by backup_data
    tmpFiles,          \* temporary files left in the data directory
    now,               \* the clock read by datetime.now()
    nextId,            \* the next identifier generate_cashbook_id() returns
    ops,               \* calls and re-openings made so far
    history,           \* of the current store: "none" (no call has changed it),
                       \* "ok" (calls succeeded, none raised) or "raised"
    last,              \* the last call: its outcome and the state before it
    cache,             \* LazyLoader._cache: id -> the record object cached
    stamps,            \* LazyLoader._cache_timestamps, in insertion order
    lock,              \* the thread inside `with self._lock`, or NoThread
    threads,           \* per thread: the call it runs, where it is, its locals
    answer,            \* what the last query of the caching layer returned
    metrics            \* PerformanceMonitor.metrics: the operation names, in order

\* the state of the caching layer (src/src/performance_manager.py) and of the
\* threads that call into the store or the cache
layerVars == <<cache, stamps, lock, threads, answer, metrics>>

vars ==
    <<phase, cashbooks, metadata, cashbooksFile, metadataFile, corruptedBackups, backups,
      tmpFiles, now, nextId, ops, history, last, layerVars>>

EmptyMap == [k \in {} |-> NoRecord]

\* a file that is no JSON object carries no entries
AbsentFile == [kind |-> "absent", data |-> <<>>]
AbsentMetadataFile == [kind |-> "absent", data |-> MetaToDict(DefaultMetadata)]

\* json.dump of the record map / of the metadata
CashbooksJson(cbs) == [kind |-> "json", data |-> [k \in DOMAIN cbs |-> ToDict(cbs[k])]]
MetadataJson(m) == [kind |-> "json", data |-> MetaToDict(m)]

Exists(f) == f.kind # "absent"

\* _update_metadata without the filter on recent_activity
UpdateMetadataKeepsStale(cbs, m) ==
    [m EXCEPT
       !.total_cashbooks = Cardinality(DOMAIN cbs),
       !.categories = SortedStrings({cbs[k].category : k \in DOMAIN cbs} \ {<<>>})]

\* CashbookManager._update_metadata
UpdateMetadata(cbs, m) ==
    [m EXCEPT
       !.total_cashbooks = Cardinality(DOMAIN cbs),
       !.categories = SortedStrings({cbs[k].category : k \in DOMAIN cbs} \ {<<>>}),
       !.recent_activity = SelectSeq(m.recent_activity, LAMBDA i : i \in DOMAIN cbs)]

\* the entries of a keyed collection that from_dict accepts
ValidEntries(data) ==
    LET good == {k \in DOMAIN data : FromDict(data[k]).err = "ok"}
    IN  [k \in good |-> FromDict(data[k]).rec]

\* the exceptions of from_dict that _load_data skips the entry for
SkippedOnLoad == {"KeyError", "ValueError", "TypeError"}

\* CashbookManager._load_data, the records file: [err, cashbooks]
LoadCashbooks(f) ==
    CASE f.kind = "absent" -> [err |-> "ok", cashbooks |-> EmptyMap]
      [] f.kind = "unreadable" -> [err |-> "FileOperationError", cashbooks |-> EmptyMap]
      [] f.kind = "garbage" -> [err |-> "DataCorruptionError", cashbooks |-> EmptyMap]
      [] f.kind = "list" -> [err |-> "AttributeError", cashbooks |-> EmptyMap]
      [] f.kind = "json" ->
            IF \E k \in DOMAIN f.data :
                  FromDict(f.data[k]).err \notin SkippedOnLoad \cup {"ok"}
            THEN [err |-> "AttributeError", cashbooks |-> EmptyMap]
            ELSE [err |-> "ok", cashbooks |-> ValidEntries(f.data)]

\* CashbookManager._load_data, the metadata file: [err, meta]
LoadMetadata(f) ==
    CASE f.kind = "absent" -> [err |-> "ok", meta |-> DefaultMetadata]
      [] f.kind = "unreadable" -> [err |-> "ok", meta |-> DefaultMetadata]
      [] f.kind = "garbage" -> [err |-> "ok", meta |-> DefaultMetadata]
      [] f.kind = "list" -> [err |-> "AttributeError", meta |-> DefaultMetadata]
      [] f.kind = "json" ->
            IF MetaFromDict(f.data).err = "ok"
            THEN [err |-> "ok", meta |-> MetaFromDict(f.data).meta]
            ELSE [err |-> "ok", meta |-> DefaultMetadata]

\* CashbookManager._load_data, the body of its try: [err, cashbooks, metadata]
LoadData(cf, mf) ==
    LET lc == LoadCashbooks(cf)
        lm == LoadMetadata(mf)
    IN  IF lc.err # "ok"
        THEN [err |-> lc.err, cashbooks |-> lc.cashbooks, metadata |-> DefaultMetadata]
        ELSE IF lm.err # "ok"
        THEN [err |-> lm.err, cashbooks |-> lc.cashbooks, metadata |-> DefaultMetadata]
        ELSE [err |-> "ok", cashbooks |-> lc.cashbooks,
              metadata |-> UpdateMetadata(lc.cashbooks, lm.meta)]

\* CashbookManager._attempt_data_recovery
AttemptDataRecovery(f) ==
    IF f.kind = "json" THEN ValidEntries(f.data) ELSE EmptyMap

SaveOutcomes == {"ok", "tmp1", "write1", "tmp2", "write2", "mv1", "mv2"}

\* CashbookManager._save_data with the step `out` failing (or none, "ok"):
\* the files it leaves and the error it raises
SaveData(cbs, m, cf, mf, tmp, out) ==
    [cashbooksFile |-> IF out \in {"ok", "mv2"} THEN CashbooksJson(cbs) ELSE cf,
     metadataFile |-> IF out = "ok" THEN MetadataJson(m) ELSE mf,
     tmpFiles |-> IF out \in {"write1", "write2"} THEN tmp + 1 ELSE tmp,
     err |-> IF out = "ok" THEN "ok" ELSE "FileOperationError"]

\* dict insertion / deletion
Put(cbs, k, r) == [x \in DOMAIN cbs \cup {k} |-> IF x = k THEN r ELSE cbs[x]]
Del(cbs, k) == [x \in DOMAIN cbs \ {k} |-> cbs[x]]

\* "if id in recent_activity: recent_activity.remove(id)"
Forget(ra, k) == IF InSeq(ra, k) THEN RemoveFirst(ra, k) ELSE ra

\* create_cashbook: promote the new id and keep the first ten
PromoteNew(ra, k) == Take(<<k>> \o Forget(ra, k), RecentCap)

\* update_cashbook appending the updated id instead of inserting it at 0
PromoteUpdatedLast(ra, k) == Forget(ra, k) \o <<k>>

\* update_cashbook: promote the updated id
PromoteUpdated(ra, k) == <<k>> \o Forget(ra, k)

\* the record of a call: what it returned or raised, and the state it started in
Call(op, id, result) ==
    [op |-> op, id |-> id, result |-> result,
     cashbooks |-> cashbooks, metadata |-> metadata,
     cashbooksFile |-> cashbooksFile, metadataFile |-> metadataFile]

\* before the first call on a store
NoCall(cf, mf) ==
    [op |-> "none", id |-> 0, result |-> "none",
     cashbooks |-> EmptyMap, metadata |-> DefaultMetadata,
     cashbooksFile |-> cf, metadataFile |-> mf]

\* -------------------------------------------------- initial directories
Cashbook(id, name, category, t) ==
    [id |-> id, name |-> name, description |-> <<>>, category |-> category,
     created_date |-> t, last_modified |-> t, entry_count |-> 0]

\* a store in which n records were created one after the other
Created(n) == [k \in 1..n |-> Cashbook(k, <<97>>, IF k = 2 THEN <<102>> ELSE <<>>, k)]

RECURSIVE RecentOf(_, _)
RecentOf(cbs, n) == IF n = 0 THEN <<>> ELSE PromoteNew(RecentOf(cbs, n - 1), n)

SavedStore(n) ==
    [cashbooksFile |-> CashbooksJson(Created(n)),
     metadataFile |-> MetadataJson(UpdateMetadata(Created(n),
                        [DefaultMetadata EXCEPT !.recent_activity = RecentOf(Created(n), n)])),
     nextId |-> n + 1, now |-> n + 1, ops |-> 0]

Garbage == [kind |-> "garbage", data |-> <<>>]

\* the directory d with the entry of record k in cashbooks.json replaced by e
WithEntry(d, k, e) == [d EXCEPT !.cashbooksFile.data[k] = e]

\* entries of cashbooks.json that from_dict rejects
NoNameEntry == [id |-> 1, created_date |-> IsoFormat(1), last_modified |-> IsoFormat(1)]
BadDateEntry(r) == [ToDict(r) EXCEPT !.last_modified = BadDate]
NumberNameEntry(r) == [ToDict(r) EXCEPT !.name = NotAString]

\* SavedStore(n) for n >= RecentCap: the last RecentCap ids are the recent ones
LargeStore(n) ==
    [cashbooksFile |-> CashbooksJson(Created(n)),
     metadataFile |-> MetadataJson(UpdateMetadata(Created(n),
                        [DefaultMetadata EXCEPT
                           !.recent_activity = [i \in 1..RecentCap |-> n + 1 - i]])),
     nextId |-> n + 1, now |-> n + 1, ops |-> 0]

\* exploration bound: a directory on which a single call is explored
OneCall(d) == [d EXCEPT !.ops = MaxOps - 1]

\* the directories a store is first constructed on: an empty one, ones that
\* earlier creates have written, and damaged ones
InitialDirectories ==
    {[cashbooksFile |-> AbsentFile, metadataFile |-> AbsentMetadataFile,
      nextId |-> 1, now |-> 1, ops |-> 0],
     SavedStore(2),
     OneCall(SavedStore(RecentCap + 1)),
     OneCall([SavedStore(2) EXCEPT !.cashbooksFile = Garbage]),
     OneCall([SavedStore(2) EXCEPT !.cashbooksFile = Garbage,
                                   !.metadataFile = AbsentMetadataFile]),
     OneCall([SavedStore(2) EXCEPT !.cashbooksFile.kind = "unreadable"]),
     OneCall([SavedStore(2) EXCEPT !.cashbooksFile = [kind |-> "list", data |-> <<>>]]),
     OneCall([SavedStore(2) EXCEPT !.metadataFile.kind = "list"]),
     OneCall(WithEntry(WithEntry(SavedStore(3), 1, NoNameEntry),
                       3, BadDateEntry(Created(3)[3]))),
     OneCall(WithEntry(SavedStore(2), 1, NumberNameEntry(Created(2)[1]))),
     OneCall([SavedStore(2) EXCEPT !.metadataFile.kind = "garbage"]),
     OneCall([SavedStore(2) EXCEPT !.metadataFile.kind = "unreadable"]),
     OneCall([SavedStore(2) EXCEPT !.metadataFile.data.last_backup = BadDate])}

\* an id under which the store holds no record
NoSuchId == 0

\* ------------------------------------------- the caching layer at rest
Threads == {1, 2}
NoThread == 0

\* a thread that runs no call
Idle == [pc |-> "idle", op |-> "none", id |-> NoSuchId, local |-> <<>>, result |-> "none"]

NoAnswer == [op |-> "none", args |-> <<>>, result |-> <<>>, expected |-> <<>>]

\* LazyLoader.__init__, and no thread started
LayerAtRest ==
    /\ cache = <<>>
    /\ stamps = <<>>
    /\ lock = NoThread
    /\ threads = [t \in Threads |-> Idle]
    /\ answer = NoAnswer
    /\ metrics = <<>>

Init ==
    /\ LayerAtRest
    /\ \E d \in InitialDirectories :
          /\ cashbooksFile = d.cashbooksFile
          /\ metadataFile = d.metadataFile
          /\ nextId = d.nextId
          /\ now = d.now
          /\ ops = d.ops
    /\ phase = "start"
    /\ cashbooks = EmptyMap
    /\ metadata = DefaultMetadata
    /\ corruptedBackups = [cashbooks |-> {}, metadata |-> {}]
    /\ backups = {}
    /\ tmpFiles = 0
    /\ history = "none"
    /\ last = NoCall(cashbooksFile, metadataFile)

\* ------------------------------------------------------- construction
\* __init__ and the try of _load_data
Load ==
    /\ phase = "start"
    /\ LET l == LoadData(cashbooksFile, metadataFile)
       IN  /\ phase' = IF l.err = "ok" THEN "loaded" ELSE "corrupt"
           /\ cashbooks' = l.cashbooks
           /\ metadata' = l.metadata
    /\ UNCHANGED <<backups, cashbooksFile, metadataFile, corruptedBackups, tmpFiles, now,
                   nextId, ops, history, last, layerVars>>

\* shutil.copy2 into corrupted_backups/: a file of the same name is replaced
CopyTo(dir, ts, f) == {b \in dir : b.ts # ts} \cup {[ts |-> ts, content |-> f]}

\* _handle_corrupted_data up to the copies; mkdirOk, copyCb and copyMd say
\* whether mkdir and the two copy2 calls succeed
BackupCorrupted(mkdirOk, copyCb, copyMd) ==
    /\ phase = "corrupt"
    /\ IF ~ mkdirOk
       THEN /\ phase' = "loaded"
            /\ cashbooks' = EmptyMap
            /\ metadata' = DefaultMetadata
            /\ UNCHANGED corruptedBackups
       ELSE /\ phase' = "recovering"
            /\ corruptedBackups' =
                 [cashbooks |->
                     IF Exists(cashbooksFile) /\ copyCb /\ cashbooksFile.kind # "unreadable"
                     THEN CopyTo(corruptedBackups.cashbooks, now, cashbooksFile)
                     ELSE corruptedBackups.cashbooks,
                  metadata |->
                     IF Exists(metadataFile) /\ copyMd /\ metadataFile.kind # "unreadable"
                     THEN CopyTo(corruptedBackups.metadata, now, metadataFile)
                     ELSE corruptedBackups.metadata]
            /\ UNCHANGED <<cashbooks, metadata>>
    /\ UNCHANGED <<backups, cashbooksFile, metadataFile, tmpFiles, now, nextId, ops, history,
                   last, layerVars>>

\* _handle_corrupted_data without its call of _update_metadata
RecoverNoUpdate(out) ==
    /\ phase = "recovering"
    /\ LET rec == AttemptDataRecovery(cashbooksFile)
           m == DefaultMetadata
           s == SaveData(rec, m, cashbooksFile, metadataFile, tmpFiles, out)
       IN  /\ cashbooks' = rec
           /\ metadata' = m
           /\ cashbooksFile' = s.cashbooksFile
           /\ metadataFile' = s.metadataFile
           /\ tmpFiles' = s.tmpFiles
    /\ phase' = "loaded"
    /\ UNCHANGED <<backups, corruptedBackups, now, nextId, ops, history, last, layerVars>>

\* _handle_corrupted_data from the recovery on; a failing save is only reported
Recover(out) ==
    /\ phase = "recovering"
    /\ LET rec == AttemptDataRecovery(cashbooksFile)
           m == UpdateMetadata(rec, DefaultMetadata)
           s == SaveData(rec, m, cashbooksFile, metadataFile, tmpFiles, out)
       IN  /\ cashbooks' = rec
           /\ metadata' = m
           /\ cashbooksFile' = s.cashbooksFile
           /\ metadataFile' = s.metadataFile
           /\ tmpFiles' = s.tmpFiles
    /\ phase' = "loaded"
    /\ UNCHANGED <<backups, corruptedBackups, now, nextId, ops, history, last, layerVars>>

\* a fresh store is constructed on the same directory
Reopen ==
    /\ phase = "loaded"
    /\ ops < MaxOps
    /\ phase' = "start"
    /\ cashbooks' = EmptyMap
    /\ metadata' = DefaultMetadata
    /\ ops' = ops + 1
    /\ history' = "none"
    /\ last' = NoCall(cashbooksFile, metadataFile)
    /\ UNCHANGED <<backups, cashbooksFile, metadataFile, corruptedBackups, tmpFiles, now, nextId,
                   layerVars>>

\* ---------------------------------------------------------- the calls
NameInputs ==
    {<<>>, <<SP, SP>>, <<SP, 98, SP>>, Rep(97, MaxNameLen),
     <<SP>> \o Rep(97, MaxNameLen + 1)}

CategoryInputs == {<<>>, <<98>>}

\* the keyword arguments of update_cashbook
FieldChanges ==
    {[name |-> <<SP, 99>>], [name |-> <<>>], [category |-> <<98>>],
     [entry_count |-> -1], [colour |-> 1], [category |-> <<99>>, name |-> <<>>]}

\* the ids a call is given: a stored one or one that is not stored
IdInputs == DOMAIN cashbooks \cup {NoSuchId}

CanCall == phase = "loaded" /\ ops < MaxOps

\* the history of the store after a call that saved with result err
After(err) == IF history = "raised" \/ err # "ok" THEN "raised" ELSE "ok"

\* create_cashbook(name, category) with its save behaving as `out`
Create(name, category, out) ==
    /\ CanCall
    /\ Validate(Cashbook(nextId, name, category, now)) # "ok" => out = "ok"
    /\ ops' = ops + 1
    /\ now' = now + 1
    /\ LET k == nextId
           c == Cashbook(k, name, category, now)
       IN  IF Validate(c) # "ok"
           THEN /\ last' = Call("create", k, "ValueError")
                /\ history' = "raised"
                /\ UNCHANGED <<cashbooks, metadata, cashbooksFile, metadataFile,
                               tmpFiles, nextId>>
           ELSE LET cbs == Put(cashbooks, k, PostInit(c))
                    m == UpdateMetadata(cbs,
                           [metadata EXCEPT !.recent_activity = PromoteNew(@, k)])
                    s == SaveData(cbs, m, cashbooksFile, metadataFile, tmpFiles, out)
                    back == Del(cbs, k)
                IN  /\ nextId' = nextId + 1
                    /\ cashbooksFile' = s.cashbooksFile
                    /\ metadataFile' = s.metadataFile
                    /\ tmpFiles' = s.tmpFiles
                    /\ IF s.err = "ok"
                       THEN /\ cashbooks' = cbs
                            /\ metadata' = m
                            /\ last' = Call("create", k, "ok")
                            /\ history' = After("ok")
                       ELSE /\ cashbooks' = back
                            /\ metadata' = UpdateMetadata(back,
                                 [m EXCEPT !.recent_activity = Forget(@, k)])
                            /\ last' = Call("create", k, "FileOperationError")
                            /\ history' = "raised"
    /\ UNCHANGED <<backups, phase, corruptedBackups>>

\* setattr for every keyword that names an attribute of the record
Apply(r, changes) ==
    [f \in DOMAIN r |-> IF f \in DOMAIN changes THEN changes[f] ELSE r[f]]

\* update_cashbook(id, **changes) with its save behaving as `out`
Update(id, changes, out) ==
    /\ CanCall
    /\ id \notin DOMAIN cashbooks => out = "ok"
    /\ ops' = ops + 1
    /\ IF id \notin DOMAIN cashbooks
       THEN /\ last' = Call("update", id, "false")
            /\ UNCHANGED <<cashbooks, metadata, cashbooksFile, metadataFile,
                           tmpFiles, now, history>>
       ELSE LET c == [Apply(cashbooks[id], changes) EXCEPT !.last_modified = now]
            IN  /\ now' = now + 1
                /\ IF Validate(c) # "ok"
                   THEN /\ cashbooks' = [cashbooks EXCEPT ![id] = c]
                        /\ last' = Call("update", id, "ValueError")
                        /\ history' = "raised"
                        /\ UNCHANGED <<metadata, cashbooksFile, metadataFile, tmpFiles>>
                   ELSE LET cbs == [cashbooks EXCEPT ![id] = PostInit(c)]
                            m == UpdateMetadata(cbs,
                                   [metadata EXCEPT !.recent_activity = PromoteUpdated(@, id)])
                            s == SaveData(cbs, m, cashbooksFile, metadataFile, tmpFiles, out)
                        IN  /\ cashbooks' = cbs
                            /\ metadata' = m
                            /\ cashbooksFile' = s.cashbooksFile
                            /\ metadataFile' = s.metadataFile
                            /\ tmpFiles' = s.tmpFiles
                            /\ last' = Call("update", id, s.err)
                            /\ history' = After(s.err)
    /\ UNCHANGED <<backups, phase, corruptedBackups, nextId>>

\* Optional[Cashbook]: None, or the one record
None == <<>>
Some(r) == <<r>>

\* CashbookManager.get_cashbook: self._cashbooks.get(cashbook_id)
GetCashbook(cbs, id) == IF id \in DOMAIN cbs THEN Some(cbs[id]) ELSE None

\* delete_cashbook without its test of the id: `del self._cashbooks[id]`
\* raises KeyError for an id that is not stored
DeleteUnchecked(id, out) ==
    /\ CanCall
    /\ id \notin DOMAIN cashbooks => out = "ok"
    /\ ops' = ops + 1
    /\ IF id \notin DOMAIN cashbooks
       THEN /\ last' = Call("delete", id, "KeyError")
            /\ history' = "raised"
            /\ UNCHANGED <<cashbooks, metadata, cashbooksFile, metadataFile, tmpFiles>>
       ELSE LET cbs == Del(cashbooks, id)
                m == UpdateMetadata(cbs,
                       [metadata EXCEPT !.recent_activity = Forget(@, id)])
                s == SaveData(cbs, m, cashbooksFile, metadataFile, tmpFiles, out)
            IN  /\ cashbooks' = cbs
                /\ metadata' = m
                /\ cashbooksFile' = s.cashbooksFile
                /\ metadataFile' = s.metadataFile
                /\ tmpFiles' = s.tmpFiles
                /\ last' = Call("delete", id, s.err)
                /\ history' = After(s.err)
    /\ UNCHANGED <<backups, phase, corruptedBackups, now, nextId>>

\* delete_cashbook(id) with its save behaving as `out`
Delete(id, out) ==
    /\ CanCall
    /\ id \notin DOMAIN cashbooks => out = "ok"
    /\ ops' = ops + 1
    /\ IF id \notin DOMAIN cashbooks
       THEN /\ last' = Call("delete", id, "false")
            /\ UNCHANGED <<cashbooks, metadata, cashbooksFile, metadataFile,
                           tmpFiles, history>>
       ELSE LET cbs == Del(cashbooks, id)
                m == UpdateMetadata(cbs,
                       [metadata EXCEPT !.recent_activity = Forget(@, id)])
                s == SaveData(cbs, m, cashbooksFile, metadataFile, tmpFiles, out)
            IN  /\ cashbooks' = cbs
                /\ metadata' = m
                /\ cashbooksFile' = s.cashbooksFile
                /\ metadataFile' = s.metadataFile
                /\ tmpFiles' = s.tmpFiles
                /\ last' = Call("delete", id, s.err)
                /\ history' = After(s.err)
    /\ UNCHANGED <<backups, phase, corruptedBackups, now, nextId>>

\* the steps of backup_data that can fail: mkdir of backups/, open of the
\* backup file, json.dump into it, and the steps of _save_data
BackupOutcomes == {"mkdir", "open", "write"} \cup SaveOutcomes

\* the content of a backup file: what json.dump has written of the records
\* and the metadata, or a part of it
BackupJson(cbs, m) == [kind |-> "json", cashbooks |-> CashbooksJson(cbs).data,
                       metadata |-> MetadataJson(m).data]
PartialBackup == [kind |-> "garbage", cashbooks |-> <<>>, metadata |-> <<>>]

\* backup_data() with the step `out` failing (or none, "ok")
Backup(out) ==
    /\ CanCall
    /\ ops' = ops + 1
    /\ now' = now + 1
    /\ IF out \in {"mkdir", "open", "write"}
       THEN /\ last' = Call("backup", NoSuchId,
                            IF out = "mkdir" THEN "OSError" ELSE "RuntimeError")
            /\ history' = "raised"
            /\ backups' = IF out = "write" THEN CopyTo(backups, now, PartialBackup)
                          ELSE backups
            /\ UNCHANGED <<metadata, cashbooksFile, metadataFile, tmpFiles>>
       ELSE LET m == [metadata EXCEPT !.last_backup = now]
                s == SaveData(cashbooks, m, cashbooksFile, metadataFile, tmpFiles, out)
            IN  /\ backups' = CopyTo(backups, now, BackupJson(cashbooks, metadata))
                /\ metadata' = m
                /\ cashbooksFile' = s.cashbooksFile
                /\ metadataFile' = s.metadataFile
                /\ tmpFiles' = s.tmpFiles
                /\ last' = Call("backup", NoSuchId, s.err)
                /\ history' = After(s.err)
    /\ UNCHANGED <<phase, cashbooks, corruptedBackups, nextId>>

Next ==
    \/ Load
    \/ \E mkdirOk, copyCb, copyMd \in BOOLEAN : BackupCorrupted(mkdirOk, copyCb, copyMd)
    \/ \E out \in SaveOutcomes : Recover(out)
    \/ Reopen
    \/ /\ \E name \in NameInputs, category \in CategoryInputs, out \in SaveOutcomes :
             Create(name, category, out)
       /\ UNCHANGED layerVars
    \/ /\ \E id \in IdInputs, changes \in FieldChanges, out \in SaveOutcomes :
             Update(id, changes, out)
       /\ UNCHANGED layerVars
    \/ /\ \E id \in IdInputs, out \in SaveOutcomes : Delete(id, out)
       /\ UNCHANGED layerVars
    \/ /\ \E out \in BackupOutcomes : Backup(out)
       /\ UNCHANGED layerVars

Spec == Init /\ [][Next]_vars

\* __init__ runs _load_data and _handle_corrupted_data to their end in the
\* constructing thread: a construction that can take its next step takes it
Construction ==
    \/ Load
    \/ \E mkdirOk, copyCb, copyMd \in BOOLEAN : BackupCorrupted(mkdirOk, copyCb, copyMd)
    \/ \E out \in SaveOutcomes : Recover(out)

\* stores constructed, one after the other, on the initial directories
ConstructionNext == Construction \/ Reopen

ConstructionSpec == Init /\ [][ConstructionNext]_vars /\ WF_vars(Construction)

\* ------------------------------------------------------------- queries
\* the store a construction without I/O failures builds on a directory
FreshStore(cf, mf) ==
    LET l == LoadData(cf, mf)
        rec == AttemptDataRecovery(cf)
    IN  IF l.err = "ok"
        THEN [cashbooks |-> l.cashbooks, metadata |-> l.metadata]
        ELSE [cashbooks |-> rec, metadata |-> UpdateMetadata(rec, DefaultMetadata)]

SaveFailed == last.result = "FileOperationError"

Consistent(cbs, m) ==
    /\ m.total_cashbooks = Cardinality(DOMAIN cbs)
    /\ \A i \in 1..Len(m.recent_activity) : m.recent_activity[i] \in DOMAIN cbs

\* ------------------------------------------ two threads on one store
\* the state after a construction, free of I/O failures, on the directory d
LoadedOn(d) ==
    /\ phase = "loaded"
    /\ cashbooks = FreshStore(d.cashbooksFile, d.metadataFile).cashbooks
    /\ metadata = FreshStore(d.cashbooksFile, d.metadataFile).metadata
    /\ cashbooksFile = d.cashbooksFile
    /\ metadataFile = d.metadataFile
    /\ corruptedBackups = [cashbooks |-> {}, metadata |-> {}]
    /\ backups = {}
    /\ tmpFiles = 0
    /\ now = d.now
    /\ nextId = d.nextId
    /\ ops = d.ops
    /\ history = "none"
    /\ last = NoCall(d.cashbooksFile, d.metadataFile)

StoreThreadsInit == LayerAtRest /\ LoadedOn(SavedStore(2))

\* the thread t at pc, in the call op on id, with the local values local
At(t, pc, op, id, local) ==
    [threads EXCEPT ![t] = [Idle EXCEPT !.pc = pc, !.op = op, !.id = id, !.local = local]]

\* the store has no lock: the statements of a call up to _save_data run in
\* one step, the steps of _save_data (two dumps to temporary files, two moves)
\* interleave with the other thread
\* create_cashbook up to its call of _save_data
BeginCreate(t, name, category) ==
    /\ threads[t].pc = "idle"
    /\ Validate(Cashbook(nextId, name, category, now)) = "ok"
    /\ LET cbs == Put(cashbooks, nextId, PostInit(Cashbook(nextId, name, category, now)))
       IN  /\ cashbooks' = cbs
           /\ metadata' = UpdateMetadata(cbs,
                             [metadata EXCEPT !.recent_activity = PromoteNew(@, nextId)])
    /\ threads' = At(t, "mutated", "create", nextId, <<>>)
    /\ nextId' = nextId + 1
    /\ now' = now + 1
    /\ UNCHANGED <<backups, metrics, phase, cashbooksFile, metadataFile, corruptedBackups, tmpFiles, ops,
                   history, last, cache, stamps, lock, answer>>

\* update_cashbook up to its call of _save_data
BeginUpdate(t, id, changes) ==
    /\ threads[t].pc = "idle"
    /\ id \in DOMAIN cashbooks
    /\ LET c == [Apply(cashbooks[id], changes) EXCEPT !.last_modified = now]
           cbs == [cashbooks EXCEPT ![id] = PostInit(c)]
       IN  /\ Validate(c) = "ok"
           /\ cashbooks' = cbs
           /\ metadata' = UpdateMetadata(cbs,
                             [metadata EXCEPT !.recent_activity = PromoteUpdated(@, id)])
    /\ threads' = At(t, "mutated", "update", id, <<>>)
    /\ now' = now + 1
    /\ UNCHANGED <<backups, metrics, phase, cashbooksFile, metadataFile, corruptedBackups, tmpFiles, nextId,
                   ops, history, last, cache, stamps, lock, answer>>

\* delete_cashbook up to its call of _save_data
BeginDelete(t, id) ==
    /\ threads[t].pc = "idle"
    /\ id \in DOMAIN cashbooks
    /\ LET cbs == Del(cashbooks, id)
       IN  /\ cashbooks' = cbs
           /\ metadata' = UpdateMetadata(cbs,
                             [metadata EXCEPT !.recent_activity = Forget(@, id)])
    /\ threads' = At(t, "mutated", "delete", id, <<>>)
    /\ UNCHANGED <<backups, metrics, phase, cashbooksFile, metadataFile, corruptedBackups, tmpFiles, now,
                   nextId, ops, history, last, cache, stamps, lock, answer>>

\* _save_data: the record map is dumped to the first temporary file
DumpCashbooks(t) ==
    /\ threads[t].pc = "mutated"
    /\ threads' = [threads EXCEPT ![t].pc = "dumped1",
                                  ![t].local = <<CashbooksJson(cashbooks)>>]
    /\ UNCHANGED <<backups, metrics, phase, cashbooks, metadata, cashbooksFile, metadataFile,
                   corruptedBackups, tmpFiles, now, nextId, ops, history, last,
                   cache, stamps, lock, answer>>

\* _save_data: the metadata is dumped to the second temporary file
DumpMetadata(t) ==
    /\ threads[t].pc = "dumped1"
    /\ threads' = [threads EXCEPT ![t].pc = "dumped2",
                                  ![t].local = @ \o <<MetadataJson(metadata)>>]
    /\ UNCHANGED <<backups, metrics, phase, cashbooks, metadata, cashbooksFile, metadataFile,
                   corruptedBackups, tmpFiles, now, nextId, ops, history, last,
                   cache, stamps, lock, answer>>

\* _save_data: shutil.move of the first temporary file onto cashbooks.json
MoveCashbooks(t) ==
    /\ threads[t].pc = "dumped2"
    /\ cashbooksFile' = threads[t].local[1]
    /\ threads' = [threads EXCEPT ![t].pc = "moved1"]
    /\ UNCHANGED <<backups, metrics, phase, cashbooks, metadata, metadataFile, corruptedBackups, tmpFiles,
                   now, nextId, ops, history, last, cache, stamps, lock, answer>>

\* _save_data: shutil.move of the second temporary file onto metadata.json;
\* the call returns
MoveMetadata(t) ==
    /\ threads[t].pc = "moved1"
    /\ metadataFile' = threads[t].local[2]
    /\ threads' = [threads EXCEPT ![t].pc = "done", ![t].local = <<>>, ![t].result = "ok"]
    /\ UNCHANGED <<backups, metrics, phase, cashbooks, metadata, cashbooksFile, corruptedBackups, tmpFiles,
                   now, nextId, ops, history, last, cache, stamps, lock, answer>>

StoreThreadsNext ==
    \E t \in Threads :
        \/ \E name \in {<<98>>}, category \in CategoryInputs : BeginCreate(t, name, category)
        \/ \E id \in DOMAIN cashbooks, changes \in {[name |-> <<SP, 99>>]} :
              BeginUpdate(t, id, changes)
        \/ \E id \in DOMAIN cashbooks : BeginDelete(t, id)
        \/ DumpCashbooks(t)
        \/ DumpMetadata(t)
        \/ MoveCashbooks(t)
        \/ MoveMetadata(t)

StoreThreadsSpec == StoreThreadsInit /\ [][StoreThreadsNext]_vars

\* the thread t has returned from a call that saved
Returned(t) == threads[t].pc = "done" /\ threads[t].result = "ok"

\* --------------------------------------------------- the caching layer
\* A record object is named by the key under which the store holds it: no
\* statement of the store binds a key to another object, and update_cashbook
\* changes the fields of the object in place.  The cache maps the value of a
\* record's id field to an object.

\* the minutes a cached entry stays valid; one unit of `now` is a minute
CacheTtl == 5        \* performance_manager.py:151
CacheCap == 100      \* performance_manager.py:210
EvictCount == 20     \* performance_manager.py:215

\* sorted(..., reverse=True) puts the object j before the object k: j was
\* modified later or, the sort being stable, at the same time and inserted
\* earlier
Before(cbs, j, k) ==
    \/ cbs[j].last_modified > cbs[k].last_modified
    \/ cbs[j].last_modified = cbs[k].last_modified /\ j < k

\* self._cashbooks.values(), as the list of the keys in insertion order
Values(cbs) ==
    IF DOMAIN cbs = {} THEN <<>>
    ELSE SelectSeq([i \in 1..(CHOOSE m \in DOMAIN cbs : \A k \in DOMAIN cbs : k <= m) |-> i],
                   LAMBDA i : i \in DOMAIN cbs)

\* CashbookManager.get_all_cashbooks: the objects, as a list of keys
GetAll(cbs) == SortSeq(Values(cbs), LAMBDA j, k : Before(cbs, j, k))

\* s[from:to] for 0 <= from
Slice(s, from, to) ==
    IF from >= Len(s) \/ to <= from THEN <<>>
    ELSE SubSeq(s, from + 1, IF to < Len(s) THEN to ELSE Len(s))

\* dict operations on _cache_timestamps, a list of [id, at] in insertion order
HasStamp(st, id) == \E i \in 1..Len(st) : st[i].id = id
StampOf(st, id) == st[CHOOSE i \in 1..Len(st) : st[i].id = id].at
PopStamp(st, id) == SelectSeq(st, LAMBDA e : e.id # id)
SetStamp(st, id, t) ==
    IF HasStamp(st, id)
    THEN [i \in 1..Len(st) |-> IF st[i].id = id THEN [id |-> id, at |-> t] ELSE st[i]]
    ELSE Append(st, [id |-> id, at |-> t])

\* dict.pop(id, None) on _cache
PopCache(c, id) == [x \in DOMAIN c \ {id} |-> c[x]]

\* the test of _get_cached_cashbook letting through an entry of age CacheTtl
FreshAtTtl(st, id, t) == HasStamp(st, id) /\ t - StampOf(st, id) <= CacheTtl

\* "cache_time and datetime.now() - cache_time < self._cache_ttl"
Fresh(st, id, t) == HasStamp(st, id) /\ t - StampOf(st, id) < CacheTtl

\* LazyLoader._get_cached_cashbook(id) at time t: [hit, ref, cache, stamps]
GetCached(c, st, id, t) ==
    IF id \notin DOMAIN c
    THEN [hit |-> FALSE, ref |-> NoSuchId, cache |-> c, stamps |-> st]
    ELSE IF Fresh(st, id, t)
    THEN [hit |-> TRUE, ref |-> c[id], cache |-> c, stamps |-> st]
    ELSE [hit |-> FALSE, ref |-> NoSuchId, cache |-> PopCache(c, id),
          stamps |-> PopStamp(st, id)]

\* the sort of _cache_cashbook with reverse=True: the newest entries first
Newer(st, j, i) == st[j].at > st[i].at \/ (st[j].at = st[i].at /\ j < i)

\* sorted(_cache_timestamps.items(), key=lambda x: x[1]) puts the entry at
\* position j before the one at position i: the sort is stable
Older(st, j, i) == st[j].at < st[i].at \/ (st[j].at = st[i].at /\ j < i)

\* the ids that _cache_cashbook removes when the cache is over its size: the
\* first EvictCount of the sorted entries
Evicted(st) ==
    {st[i].id : i \in {i \in 1..Len(st) :
                         Cardinality({j \in 1..Len(st) : Older(st, j, i)}) < EvictCount}}

\* _cache_cashbook removing the oldest entries from _cache only
ShrinkCacheOnly(c, st) ==
    IF Cardinality(DOMAIN c) > CacheCap
    THEN [cache |-> [x \in DOMAIN c \ Evicted(st) |-> c[x]], stamps |-> st]
    ELSE [cache |-> c, stamps |-> st]

\* _cache_cashbook, the limit on the size of the cache
Shrink(c, st) ==
    IF Cardinality(DOMAIN c) > CacheCap
    THEN LET gone == Evicted(st)
         IN  [cache |-> [x \in DOMAIN c \ gone |-> c[x]],
              stamps |-> SelectSeq(st, LAMBDA e : e.id \notin gone)]
    ELSE [cache |-> c, stamps |-> st]

\* self._cache[id] = the object ref
SetCache(c, id, ref) == [x \in DOMAIN c \cup {id} |-> IF x = id THEN ref ELSE c[x]]

\* LazyLoader._cache_cashbook(the object ref, whose id field is id) at time t
CacheCashbook(c, st, id, ref, t) == Shrink(SetCache(c, id, ref), SetStamp(st, id, t))

\* the loop of get_cashbooks_batch over the objects `items` at time t, given
\* the cache and the objects found so far: [cache, stamps, result]
RECURSIVE Lookups(_, _, _, _, _, _)
Lookups(cbs, c, st, items, t, found) ==
    IF items = <<>> THEN [cache |-> c, stamps |-> st, result |-> found]
    ELSE LET ref == Head(items)
             got == GetCached(c, st, cbs[ref].id, t)
             put == CacheCashbook(got.cache, got.stamps, cbs[ref].id, ref, t)
         IN  IF got.hit
             THEN Lookups(cbs, c, st, Tail(items), t, Append(found, got.ref))
             ELSE Lookups(cbs, put.cache, put.stamps, Tail(items), t, Append(found, ref))

\* LazyLoader.get_cashbooks_batch(offset, limit)
Batch(cbs, c, st, offset, limit, t) ==
    Lookups(cbs, c, st, Slice(GetAll(cbs), offset, offset + limit), t, <<>>)

Min(a, b) == IF a < b THEN a ELSE b

\* PerformanceOptimizedManager.get_all_cashbooks_paginated(page, size) at time
\* t: the dict it returns, and the cache it leaves
Paginated(cbs, c, st, page, size, t) ==
    LET offset == page * size
        total_count == Cardinality(DOMAIN cbs)
        b == Batch(cbs, c, st, offset, size, t)
        total_pages == (total_count + size - 1) \div size
    IN  [cashbooks |-> b.result,
         pagination |-> [current_page |-> page, page_size |-> size,
                         total_pages |-> total_pages, total_count |-> total_count,
                         has_next |-> page < total_pages - 1, has_prev |-> page > 0,
                         start_index |-> offset,
                         end_index |-> Min(offset + size, total_count)],
         cache |-> b.cache, stamps |-> b.stamps]

\* the records of the pages from `page` to the last one, asked for one after
\* the other at time t (each call leaves its cache to the next)
RECURSIVE PagesFrom(_, _, _, _, _, _)
PagesFrom(cbs, c, st, page, size, t) ==
    LET p == Paginated(cbs, c, st, page, size, t)
    IN  IF page >= p.pagination.total_pages THEN <<>>
        ELSE p.cashbooks \o PagesFrom(cbs, p.cache, p.stamps, page + 1, size, t)

\* ------------------------------------------------------------ search
\* the Greek letter sigma: capital, small and small final
SIGMA == 931
sigma == 963
finalSigma == 962

\* the characters str.lower() takes for cased: A..Z, a..z and the sigmas
Cased(c) == c \in (65..90) \cup (97..122) \cup {SIGMA, sigma, finalSigma}

\* str.lower() on one character that is not a capital sigma
LowerChar(c) == IF c \in 65..90 THEN c + 32 ELSE c

\* str.lower(): a capital sigma that ends a word (a cased character before
\* it, none after it) becomes the final sigma, any other the small sigma
Lower(s) ==
    [i \in 1..Len(s) |->
        IF s[i] # SIGMA THEN LowerChar(s[i])
        ELSE IF /\ i > 1 /\ Cased(s[i - 1])
                /\ ~(i < Len(s) /\ Cased(s[i + 1]))
             THEN finalSigma ELSE sigma]

\* "a in b" for two str
In(a, b) == \E i \in 0..(Len(b) - Len(a)) : SubSeq(b, i + 1, i + Len(a)) = a

\* the loop of search_cashbooks over the records left to scan
RECURSIVE Scan(_, _, _, _, _)
Scan(cbs, items, query_lower, limit, results) ==
    IF items = <<>> THEN results
    ELSE IF \/ In(query_lower, Lower(cbs[Head(items)].name))
            \/ In(query_lower, Lower(cbs[Head(items)].description))
            \/ In(query_lower, Lower(cbs[Head(items)].category))
         THEN LET found == Append(results, Head(items))
              IN  IF Len(found) >= limit THEN found
                  ELSE Scan(cbs, Tail(items), query_lower, limit, found)
         ELSE Scan(cbs, Tail(items), query_lower, limit, results)

\* PerformanceOptimizedManager.search_cashbooks(query, limit)
SearchCashbooks(cbs, query, limit) ==
    IF Strip(query) = <<>> THEN <<>>
    ELSE Scan(cbs, GetAll(cbs), Strip(Lower(query)), limit, <<>>)

\* ------------------------------- calls on the store and on the cache
storeVars ==
    <<phase, cashbooks, metadata, cashbooksFile, metadataFile, corruptedBackups, backups,
      tmpFiles, now, nextId, ops, history, last>>

\* the answer of a query, with what the claim about it expects
Answer(op, args, result, expected) ==
    [op |-> op, args |-> args, result |-> result, expected |-> expected]

\* lazy_loader.get_cashbooks_batch(offset, limit), called by one thread
GetBatch(offset, limit) ==
    /\ phase = "loaded"
    /\ LET b == Batch(cashbooks, cache, stamps, offset, limit, now)
       IN  /\ cache' = b.cache
           /\ stamps' = b.stamps
           /\ answer' = Answer("batch", <<offset, limit>>, b.result,
                               Slice(GetAll(cashbooks), offset, offset + limit))
    /\ UNCHANGED <<metrics, storeVars, lock, threads>>

\* lazy_loader.invalidate_cache(id)
Invalidate(id) ==
    /\ CanCall
    /\ ops' = ops + 1
    /\ cache' = PopCache(cache, id)
    /\ stamps' = PopStamp(stamps, id)
    /\ UNCHANGED <<backups, metrics, phase, cashbooks, metadata, cashbooksFile, metadataFile,
                   corruptedBackups, tmpFiles, now, nextId, history, last,
                   lock, threads, answer>>

\* lazy_loader.invalidate_cache()
InvalidateAll ==
    /\ CanCall
    /\ ops' = ops + 1
    /\ cache' = <<>>
    /\ stamps' = <<>>
    /\ UNCHANGED <<backups, metrics, phase, cashbooks, metadata, cashbooksFile, metadataFile,
                   corruptedBackups, tmpFiles, now, nextId, history, last,
                   lock, threads, answer>>

\* the time to live of the cached entries passes
Expire ==
    /\ CanCall
    /\ ops' = ops + 1
    /\ now' = now + CacheTtl
    /\ UNCHANGED <<backups, phase, cashbooks, metadata, cashbooksFile, metadataFile,
                   corruptedBackups, tmpFiles, nextId, history, last, layerVars>>

\* get_all_cashbooks_paginated(page, size)
GetPage(page, size) ==
    /\ phase = "loaded"
    /\ LET p == Paginated(cashbooks, cache, stamps, page, size, now)
       IN  /\ cache' = p.cache
           /\ stamps' = p.stamps
           /\ answer' = Answer("page", <<page, size>>,
                               [cashbooks |-> p.cashbooks, pagination |-> p.pagination],
                               GetAll(cashbooks))
    /\ UNCHANGED <<metrics, storeVars, lock, threads>>

Offsets == {0, 1}
Pages == {0, 1, 2}
PageSizes == {1, 2}
Limits == {1, 2}

\* keyword arguments of update_cashbook that pass the validation
ValidChanges == {[name |-> <<SP, 99>>]} \cup {[id |-> k] : k \in DOMAIN cashbooks}

CacheInit == LayerAtRest /\ LoadedOn(SavedStore(2))

CacheNext ==
    \/ \E offset \in Offsets, limit \in Limits : GetBatch(offset, limit)
    \/ \E page \in Pages, size \in PageSizes : GetPage(page, size)
    \/ \E id \in {cashbooks[k].id : k \in DOMAIN cashbooks} : Invalidate(id)
    \/ InvalidateAll
    \/ Expire
    \/ Create(<<98>>, <<>>, "ok") /\ UNCHANGED layerVars
    \/ /\ \E id \in DOMAIN cashbooks, changes \in ValidChanges : Update(id, changes, "ok")
       /\ UNCHANGED layerVars
    \/ (\E id \in DOMAIN cashbooks : Delete(id, "ok")) /\ UNCHANGED layerVars

CacheSpec == CacheInit /\ [][CacheNext]_vars

\* ------------------------------------------ two threads on one cache
\* a thread in get_cashbooks_batch: the objects left to look up and those found
InBatch(items, found) == [items |-> items, found |-> found]

\* get_cashbooks_batch(offset, limit) up to its loop
BeginBatch(t, offset, limit) ==
    /\ threads[t].pc = "idle"
    /\ CanCall
    /\ ops' = ops + 1
    /\ threads' = At(t, "next", "batch", NoSuchId,
                     InBatch(Slice(GetAll(cashbooks), offset, offset + limit), <<>>))
    /\ UNCHANGED <<backups, metrics, phase, cashbooks, metadata, cashbooksFile, metadataFile,
                   corruptedBackups, tmpFiles, now, nextId, history, last,
                   cache, stamps, lock, answer>>

\* the loop is over: the batch is returned
ReturnBatch(t) ==
    /\ threads[t].pc = "next"
    /\ threads[t].local.items = <<>>
    /\ threads' = [threads EXCEPT ![t] = Idle]
    /\ answer' = Answer("batch", <<t>>, threads[t].local.found, <<>>)
    /\ UNCHANGED <<metrics, storeVars, cache, stamps, lock>>

\* the next object of the batch: _get_cached_cashbook takes the lock
EnterLookup(t) ==
    /\ threads[t].pc = "next"
    /\ threads[t].local.items # <<>>
    /\ lock = NoThread
    /\ lock' = t
    /\ threads' = [threads EXCEPT ![t].pc = "lookup",
                                  ![t].id = cashbooks[Head(threads[t].local.items)].id]
    /\ UNCHANGED <<metrics, storeVars, cache, stamps, answer>>

\* _get_cached_cashbook inside the lock: a miss or a hit, which leave the
\* lock, or the first pop of an expired entry
Lookup(t) ==
    /\ threads[t].pc = "lookup"
    /\ LET id == threads[t].id
           l == threads[t].local
       IN  IF id \notin DOMAIN cache
           THEN /\ threads' = [threads EXCEPT ![t].pc = "miss"]
                /\ lock' = NoThread
                /\ UNCHANGED cache
           ELSE IF Fresh(stamps, id, now)
           THEN /\ threads' = [threads EXCEPT
                                 ![t].pc = "next",
                                 ![t].local = InBatch(Tail(l.items), Append(l.found, cache[id]))]
                /\ lock' = NoThread
                /\ UNCHANGED cache
           ELSE /\ threads' = [threads EXCEPT ![t].pc = "expired"]
                /\ cache' = PopCache(cache, id)
                /\ UNCHANGED lock
    /\ UNCHANGED <<metrics, storeVars, stamps, answer>>

\* _get_cached_cashbook: the second pop of an expired entry; the lock is left
PopExpired(t) ==
    /\ threads[t].pc = "expired"
    /\ stamps' = PopStamp(stamps, threads[t].id)
    /\ lock' = NoThread
    /\ threads' = [threads EXCEPT ![t].pc = "miss"]
    /\ UNCHANGED <<metrics, storeVars, cache, answer>>

\* _cache_cashbook takes the lock and stores the object
StoreEntry(t) ==
    /\ threads[t].pc = "miss"
    /\ lock = NoThread
    /\ lock' = t
    /\ cache' = SetCache(cache, threads[t].id, Head(threads[t].local.items))
    /\ threads' = [threads EXCEPT ![t].pc = "stamp"]
    /\ UNCHANGED <<metrics, storeVars, stamps, answer>>

\* _cache_cashbook stores the time
StampEntry(t) ==
    /\ threads[t].pc = "stamp"
    /\ stamps' = SetStamp(stamps, threads[t].id, now)
    /\ threads' = [threads EXCEPT ![t].pc = "shrink"]
    /\ UNCHANGED <<metrics, storeVars, cache, lock, answer>>

\* _cache_cashbook limits the size and leaves the lock; the loop goes on
ShrinkAndLeave(t) ==
    /\ threads[t].pc = "shrink"
    /\ cache' = Shrink(cache, stamps).cache
    /\ stamps' = Shrink(cache, stamps).stamps
    /\ lock' = NoThread
    /\ LET l == threads[t].local
       IN  threads' = [threads EXCEPT
                         ![t].pc = "next",
                         ![t].local = InBatch(Tail(l.items), Append(l.found, Head(l.items)))]
    /\ UNCHANGED <<metrics, storeVars, answer>>

\* invalidate_cache(id), or invalidate_cache() when id is NoSuchId: the lock
\* is taken and _cache popped or cleared
BeginInvalidate(t, id) ==
    /\ threads[t].pc = "idle"
    /\ CanCall
    /\ ops' = ops + 1
    /\ lock = NoThread
    /\ lock' = t
    /\ cache' = IF id = NoSuchId THEN <<>> ELSE PopCache(cache, id)
    /\ threads' = At(t, "invalidating", "invalidate", id, <<>>)
    /\ UNCHANGED <<backups, metrics, phase, cashbooks, metadata, cashbooksFile, metadataFile,
                   corruptedBackups, tmpFiles, now, nextId, history, last,
                   stamps, answer>>

\* invalidate_cache: _cache_timestamps is popped or cleared, the lock left
EndInvalidate(t) ==
    /\ threads[t].pc = "invalidating"
    /\ stamps' = IF threads[t].id = NoSuchId THEN <<>> ELSE PopStamp(stamps, threads[t].id)
    /\ lock' = NoThread
    /\ threads' = [threads EXCEPT ![t] = Idle]
    /\ UNCHANGED <<metrics, storeVars, cache, answer>>

\* the cache after get_cashbooks_batch(0, n) at time t on an empty cache and
\* a store whose records have the ids of their keys
Warm(cbs, n, t) ==
    [cache |-> [k \in {GetAll(cbs)[i] : i \in 1..n} |-> k],
     stamps |-> [i \in 1..n |-> [id |-> GetAll(cbs)[i], at |-> t]]]

\* a store of CacheCap + 1 records, all but the last two in the cache
CacheThreadsInit ==
    /\ LoadedOn(LargeStore(CacheCap + 1))
    /\ cache = Warm(cashbooks, CacheCap - 1, now).cache
    /\ stamps = Warm(cashbooks, CacheCap - 1, now).stamps
    /\ lock = NoThread
    /\ threads = [t \in Threads |-> Idle]
    /\ answer = NoAnswer
    /\ metrics = <<>>

CacheThreadsNext ==
    \/ Expire
    \/ \E t \in Threads :
          \/ \E offset \in {0, CacheCap - 1}, limit \in Limits : BeginBatch(t, offset, limit)
          \/ ReturnBatch(t)
          \/ EnterLookup(t)
          \/ Lookup(t)
          \/ PopExpired(t)
          \/ StoreEntry(t)
          \/ StampEntry(t)
          \/ ShrinkAndLeave(t)
          \/ \E id \in {NoSuchId, CacheCap + 1} : BeginInvalidate(t, id)
          \/ EndInvalidate(t)

CacheThreadsSpec == CacheThreadsInit /\ [][CacheThreadsNext]_vars

\* the ids that have a time in _cache_timestamps
Stamped(st) == {st[i].id : i \in 1..Len(st)}

\* -------------------------------------------------------------- claims

\* C1: after a create, update or delete whose save fails at any step, the
\* records in memory and the records in cashbooks.json are what they were
\* before the call.
C1_FailedSaveChangesNothing ==
    SaveFailed =>
        /\ cashbooks = last.cashbooks
        /\ cashbooksFile = last.cashbooksFile

\* C2: when the save inside create fails, the record map, recent_activity,
\* total_cashbooks and categories are what they were before the call.
C2_CreateRolledBack ==
    (last.op = "create" /\ SaveFailed) =>
        /\ cashbooks = last.cashbooks
        /\ metadata.recent_activity = last.metadata.recent_activity
        /\ metadata.total_cashbooks = last.metadata.total_cashbooks
        /\ metadata.categories = last.metadata.categories

\* C3: when the save inside update or delete fails, the records and the
\* metadata in memory are rolled back to what they were before the call.
C3_UpdateDeleteRolledBack ==
    (last.op \in {"update", "delete"} /\ SaveFailed) =>
        /\ cashbooks = last.cashbooks
        /\ metadata = last.metadata

\* C4: every record in the store's map has a name that is non-empty after
\* trimming and at most 100 characters long, and an entry_count >= 0.
C4_StoredRecordsValid ==
    phase = "loaded" =>
        \A k \in DOMAIN cashbooks :
            /\ Strip(cashbooks[k].name) # <<>>
            /\ Len(cashbooks[k].name) <= MaxNameLen
            /\ cashbooks[k].entry_count >= 0

\* C5: after any sequence of calls, successful or failing, total_cashbooks is
\* the number of records and every id in recent_activity is a stored record.
C5_MetadataConsistent == phase = "loaded" => Consistent(cashbooks, metadata)

\* C5 witness: a delete whose save failed left other records in the store.
C5_Witness ==
    /\ last.op = "delete"
    /\ SaveFailed
    /\ Len(last.metadata.recent_activity) > Len(metadata.recent_activity)
    /\ cashbooks # EmptyMap

\* C6: recent_activity holds at most 10 ids.
C6_RecentCapped == phase = "loaded" => Len(metadata.recent_activity) <= RecentCap

\* the position of x in a list without repetitions
Pos(s, x) == CHOOSE i \in 1..Len(s) : s[i] = x

\* C7: after a successful create or update of x, x is the first element of
\* recent_activity, occurs there once, and the other ids of the list are ids
\* of the previous list in their previous relative order.
C7_PromotedToFront ==
    (last.op \in {"create", "update"} /\ last.result = "ok") =>
        LET new == metadata.recent_activity
            old == last.metadata.recent_activity
        IN  /\ new # <<>>
            /\ new[1] = last.id
            /\ \A i \in 2..Len(new) : new[i] # last.id /\ InSeq(old, new[i])
            /\ \A i, j \in 2..Len(new) : i < j => Pos(old, new[i]) < Pos(old, new[j])

\* C7 witness: records 1, 2, 3 were created in this order ([3, 2, 1]) and
\* record 1 was then updated: the list is [1, 3, 2].
C7_Witness ==
    /\ last.op = "update"
    /\ last.result = "ok"
    /\ last.metadata.recent_activity = <<3, 2, 1>>
    /\ metadata.recent_activity = <<1, 3, 2>>

\* C8: after successful calls on a store, a fresh store constructed on the
\* same directory holds the same records, with the same field values, and
\* the same recent_activity.
C8_FreshStoreEqual ==
    (phase = "loaded" /\ history = "ok") =>
        LET fresh == FreshStore(cashbooksFile, metadataFile)
        IN  /\ fresh.cashbooks = cashbooks
            /\ fresh.metadata.recent_activity = metadata.recent_activity

\* C8 witness: two calls succeeded, the second an update that renamed a
\* record of a store holding several.
C8_Witness ==
    /\ phase = "loaded"
    /\ history = "ok"
    /\ last.op = "update"
    /\ last.result = "ok"
    /\ Cardinality(DOMAIN cashbooks) >= 3
    /\ cashbooks[last.id].name # last.cashbooks[last.id].name

\* the construction ended and met cashbooks.json with unparseable content
ConstructedOnGarbage ==
    phase = "loaded" /\ last.op = "none" /\ last.cashbooksFile.kind = "garbage"

\* C9: on unparseable cashbooks.json the construction ends with an empty (or
\* recovered) record set, total_cashbooks equal to its size, and a file under
\* corrupted_backups/ holding the unparseable content.
C9_GarbageBackedUp ==
    ConstructedOnGarbage =>
        /\ cashbooks = AttemptDataRecovery(last.cashbooksFile)
        /\ metadata.total_cashbooks = Cardinality(DOMAIN cashbooks)
        /\ \E b \in corruptedBackups.cashbooks : b.content = last.cashbooksFile

\* C10: corruption handling overwrites cashbooks.json only when a copy of its
\* content exists under corrupted_backups/.
C10_BackupBeforeOverwrite ==
    [][(phase = "recovering" /\ cashbooksFile' # cashbooksFile) =>
          \E b \in corruptedBackups.cashbooks : b.content = cashbooksFile]_vars

\* the construction of the current store has ended and no call was made yet
Constructed == phase = "loaded" /\ last.op = "none"

\* C11: whatever the two files hold and whichever step of the backup or of
\* the save during recovery fails, a construction that has started ends, in
\* the loaded state, with total_cashbooks equal to the number of records and
\* every id of recent_activity stored.
C11_ConstructionEndsLoaded ==
    (phase = "start") ~> (Constructed /\ Consistent(cashbooks, metadata))

\* C11 witness: the construction met an entry that made the load fail, the
\* copy of cashbooks.json failed, the other entry was recovered and the save
\* of the recovered data failed.
C11_Witness ==
    /\ Constructed
    /\ \E k \in DOMAIN last.cashbooksFile.data :
          FromDict(last.cashbooksFile.data[k]).err = "AttributeError"
    /\ corruptedBackups.cashbooks = {}
    /\ cashbooks # EmptyMap
    /\ cashbooksFile = last.cashbooksFile

\* C12: when two threads have each run a create, update or delete on the same
\* store and both have returned successfully, cashbooks.json holds exactly
\* the records held in memory.
C12_NoLostUpdate ==
    (\A t \in Threads : Returned(t)) => cashbooksFile = CashbooksJson(cashbooks)

\* C13: after any sequence of store calls, cache reads, expiries and
\* invalidations, get_cashbooks_batch(offset, limit) returns the objects of
\* get_all_cashbooks()[offset:offset+limit], in that order.
C13_BatchIsSlice == answer.op = "batch" => answer.result = answer.expected

\* C14: with threads running get_cashbooks_batch and invalidate_cache
\* concurrently, whenever no thread holds the lock of the cache, _cache and
\* _cache_timestamps have the same keys and _cache holds at most 100 entries.
C14_CacheMapsAgree ==
    lock = NoThread =>
        /\ DOMAIN cache = Stamped(stamps)
        /\ Cardinality(DOMAIN cache) <= CacheCap

\* C14 witness: one thread took the cache over its size and shrank it while
\* the other is inside a call, and no thread holds the lock.
C14_Witness ==
    /\ lock = NoThread
    /\ Cardinality(DOMAIN cache) = CacheCap + 1 - EvictCount
    /\ \A t \in Threads : threads[t].pc # "idle"

\* ------------------------------------------------- searching a store
\* the objects of get_all_cashbooks() with what they hold
Listed(cbs) == [i \in 1..Len(GetAll(cbs)) |-> [ref |-> GetAll(cbs)[i], holds |-> cbs[GetAll(cbs)[i]]]]

\* search_cashbooks(query, limit)
Search(query, limit) ==
    /\ CanCall
    /\ ops' = ops + 1
    /\ answer' = Answer("search", <<query, limit>>,
                        SearchCashbooks(cashbooks, query, limit), Listed(cashbooks))
    /\ metrics' = IF Strip(query) = <<>> THEN metrics
                  ELSE Append(metrics, "search_cashbooks")
    /\ UNCHANGED <<backups, phase, cashbooks, metadata, cashbooksFile, metadataFile,
                   corruptedBackups, tmpFiles, now, nextId, history, last,
                   cache, stamps, lock, threads>>

\* "B", " b ", "ba", "F", "a c", a capital sigma, and two blank queries
Queries ==
    {<<66>>, <<SP, 98, SP>>, <<98, 97>>, <<70>>, <<97, SP, 99>>, <<SIGMA>>, <<>>, <<SP, SP>>}
SearchLimits == {0, 1, 2}

\* keyword arguments that give the records different texts
TextChanges ==
    {[name |-> <<66, 97>>], [description |-> <<97, 66>>], [category |-> <<98>>],
     [description |-> <<65, SP, 67>>], [name |-> <<65, SIGMA>>]}

SearchInit == LayerAtRest /\ LoadedOn(SavedStore(2))

SearchNext ==
    \/ \E query \in Queries, limit \in SearchLimits : Search(query, limit)
    \/ /\ \E id \in DOMAIN cashbooks, changes \in TextChanges : Update(id, changes, "ok")
       /\ UNCHANGED layerVars

SearchSpec == SearchInit /\ [][SearchNext]_vars

\* ------------------------------------------------ performance metrics
MetricsCap == 100    \* performance_manager.py:80
SmallLimit == 10     \* performance_manager.py:289

\* the wrapper of measure_operation after a call that returned: the metric is
\* appended under the lock and the last MetricsCap metrics are kept
Recorded(ms, name) ==
    LET all == Append(ms, name)
    IN  IF Len(all) > MetricsCap
        THEN SubSeq(all, Len(all) - MetricsCap + 1, Len(all))
        ELSE all

\* the wrapper of measure_operation after a call that raised
RecordedFailed(ms, name) == Append(ms, name \o "_FAILED")

\* CashbookManager.get_recent_cashbooks(limit) for limit >= 0, as a list of
\* the objects
GetRecent(cbs, m, limit) ==
    SelectSeq(Take(m.recent_activity, limit), LAMBDA k : k \in DOMAIN cbs)

\* get_recent_cashbooks_optimized(limit)
GetRecentOptimized(limit) ==
    /\ CanCall
    /\ ops' = ops + 1
    /\ LET b == Batch(cashbooks, cache, stamps, 0, limit, now)
       IN  IF limit <= SmallLimit
           THEN /\ answer' = Answer("recent", <<limit>>,
                                    GetRecent(cashbooks, metadata, limit), GetAll(cashbooks))
                /\ UNCHANGED <<cache, stamps>>
           ELSE /\ answer' = Answer("recent", <<limit>>, b.result, GetAll(cashbooks))
                /\ cache' = b.cache
                /\ stamps' = b.stamps
    /\ metrics' = Append(metrics, "get_recent_cashbooks_optimized")
    /\ UNCHANGED <<backups, phase, cashbooks, metadata, cashbooksFile, metadataFile,
                   corruptedBackups, tmpFiles, now, nextId, history, last,
                   lock, threads>>

\* a call of an operation decorated with measure_operation("op"), which
\* returns or raises
Measured(raises) ==
    /\ CanCall
    /\ ops' = ops + 1
    /\ metrics' = IF raises THEN RecordedFailed(metrics, "op") ELSE Recorded(metrics, "op")
    /\ UNCHANGED <<backups, phase, cashbooks, metadata, cashbooksFile, metadataFile,
                   corruptedBackups, tmpFiles, now, nextId, history, last,
                   cache, stamps, lock, threads, answer>>

RecentLimits == {0, 2, SmallLimit + 1}

\* a caching layer that has answered MetricsCap - 1 searches
MonitorInit ==
    /\ LoadedOn(SavedStore(2))
    /\ cache = <<>>
    /\ stamps = <<>>
    /\ lock = NoThread
    /\ threads = [t \in Threads |-> Idle]
    /\ answer = NoAnswer
    /\ metrics = [i \in 1..(MetricsCap - 1) |-> "search_cashbooks"]

MonitorNext ==
    \/ \E limit \in RecentLimits : GetRecentOptimized(limit)
    \/ \E page \in Pages, size \in PageSizes : GetPage(page, size)
    \/ \E query \in {<<70>>, <<SP, SP>>}, limit \in SearchLimits : Search(query, limit)
    \/ \E raises \in BOOLEAN : Measured(raises)

MonitorSpec == MonitorInit /\ [][MonitorNext]_vars

\* C15: with the store unchanged between the calls, the records of the pages
\* 0 .. total_pages-1 of a page size >= 1, concatenated in page order, are
\* the records of get_all_cashbooks() in order.
C15_PagesPartition ==
    phase = "loaded" =>
        \A size \in PageSizes :
            PagesFrom(cashbooks, cache, stamps, 0, size, now) = GetAll(cashbooks)

\* the least n with n * b >= a
Ceil(a, b) == CHOOSE n \in 0..a : n * b >= a /\ (n - 1) * b < a

\* C16: get_all_cashbooks_paginated(page, size) with page >= 0 and size >= 1
\* reports the number of records as total_count, ceil(total_count / size) as
\* total_pages, has_prev exactly when page > 0, has_next exactly when
\* page < total_pages - 1, and returns end_index - start_index records.
C16_PageReport ==
    answer.op = "page" =>
        LET p == answer.result.pagination
            page == answer.args[1]
            size == answer.args[2]
        IN  /\ p.total_count = Len(answer.expected)
            /\ p.total_pages = Ceil(p.total_count, size)
            /\ p.has_prev = (page > 0)
            /\ p.has_next = (page < p.total_pages - 1)
            /\ Len(answer.result.cashbooks) = p.end_index - p.start_index

\* C17: for every query and every limit >= 0, search_cashbooks returns at
\* most limit records.
C17_SearchWithinLimit ==
    answer.op = "search" => Len(answer.result) <= answer.args[2]

\* two characters that are the same letter, whatever their case
SameLetter(a, b) ==
    \/ a = b
    \/ a \in 65..90 /\ b = a + 32
    \/ b \in 65..90 /\ a = b + 32
    \/ {a, b} \subseteq {SIGMA, sigma, finalSigma}

\* the text s contains q, case ignored
ContainsIgnoringCase(s, q) ==
    \E i \in 0..(Len(s) - Len(q)) : \A j \in 1..Len(q) : SameLetter(s[i + j], q[j])

\* the record r matches the query q in one of its three texts
Matches(r, q) ==
    \/ ContainsIgnoringCase(r.name, Strip(q))
    \/ ContainsIgnoringCase(r.description, Strip(q))
    \/ ContainsIgnoringCase(r.category, Strip(q))

Blank(q) == \A i \in 1..Len(q) : q[i] = SP

\* C18: for a non-blank query and limit >= 1, search_cashbooks returns the
\* first limit records of get_all_cashbooks(), in that order, of which the
\* name, the description or the category contains the trimmed query, case
\* ignored; for a blank query it returns the empty list.
C18_SearchFindsFirstMatches ==
    (answer.op = "search" /\ answer.args[2] >= 1) =>
        LET q == answer.args[1]
        IN  IF Blank(q) THEN answer.result = <<>>
            ELSE LET matching == SelectSeq(answer.expected, LAMBDA e : Matches(e.holds, q))
                 IN  answer.result =
                       Take([i \in 1..Len(matching) |-> matching[i].ref], answer.args[2])

\* C19: update_cashbook and delete_cashbook called with an id that is not in
\* the store return False without raising, save nothing, and leave the record
\* map, the metadata and both files as they were; get_cashbook of that id
\* returns None.
C19_AbsentIdChangesNothing ==
    [][(/\ ops' = ops + 1
        /\ last'.op \in {"update", "delete"}
        /\ last'.id \notin DOMAIN cashbooks)
       => /\ last'.result = "false"
          /\ UNCHANGED <<backups, cashbooks, metadata, cashbooksFile, metadataFile, tmpFiles,
                         corruptedBackups>>
          /\ GetCashbook(cashbooks', last'.id) = None]_vars

\* delete_cashbook of an id that is not stored has returned False, on a store
\* that holds records and whose cashbooks.json a save would rewrite
C19_Witness ==
    /\ last.op = "delete"
    /\ last.result = "false"
    /\ last.id \notin DOMAIN cashbooks
    /\ DOMAIN cashbooks # {}
    /\ cashbooksFile # CashbooksJson(cashbooks)

\* the non-empty categories of the records of a store
CategoriesInUse(cbs) == {cbs[k].category : k \in DOMAIN cbs} \ {<<>>}

\* C20: after any sequence of create, update and delete calls, successful or
\* failing, metadata.categories is the sorted list of the distinct non-empty
\* categories of the records in the store.
C20_CategoriesDerived ==
    (phase = "loaded" /\ last.op # "none") =>
        /\ {metadata.categories[i] : i \in 1..Len(metadata.categories)}
             = CategoriesInUse(cashbooks)
        /\ \A i \in 1..(Len(metadata.categories) - 1) :
             StrLess(metadata.categories[i], metadata.categories[i + 1])

\* C21: whatever field names and values update_cashbook is given, the record
\* has the same id and the same created_date after the call as before it, and
\* is still stored under the key equal to its id.
C21_UpdateKeepsIdentity ==
    [][(/\ ops' = ops + 1
        /\ last'.op = "update"
        /\ last'.id \in DOMAIN cashbooks)
       => /\ last'.id \in DOMAIN cashbooks'
          /\ cashbooks'[last'.id].id = cashbooks[last'.id].id
          /\ cashbooks'[last'.id].created_date = cashbooks[last'.id].created_date
          /\ cashbooks'[last'.id].id = last'.id]_vars

\* the age at time t of the entry of id in the cache
Age(st, id, t) == t - StampOf(st, id)

\* C22: a read of the cache returns no entry of an age of CacheTtl or more;
\* a read that finds such an entry leaves the lock with the id in neither
\* _cache nor _cache_timestamps and reports a miss, and get_cashbooks_batch
\* then stores the object of the store under that id with the time of the
\* store as its timestamp.
C22_ExpiredIsAbsent ==
    [][\A t \in Threads :
         LET id == threads[t].id
         IN  /\ (threads[t].pc = "lookup" /\ threads'[t].pc = "next")
                 => (id \in DOMAIN cache /\ Age(stamps, id, now) < CacheTtl)
             /\ (/\ threads[t].pc = "lookup"
                 /\ threads'[t].pc # "lookup"
                 /\ id \in DOMAIN cache
                 /\ Age(stamps, id, now) >= CacheTtl)
                 => threads'[t].pc = "expired"
             /\ (threads[t].pc = "expired" /\ threads'[t].pc # "expired")
                 => /\ threads'[t].pc = "miss"
                    /\ lock' = NoThread
                    /\ id \notin DOMAIN cache'
                    /\ id \notin Stamped(stamps')
             /\ (threads[t].pc = "stamp" /\ threads'[t].pc = "shrink")
                 => Age(stamps', id, now) = 0
             /\ (threads[t].pc = "shrink" /\ threads'[t].pc = "next")
                 => /\ id \in DOMAIN cache' \cap Stamped(stamps')
                    /\ cache'[id] = Head(threads[t].local.items)
                    /\ cashbooks[cache'[id]].id = id
                    /\ StampOf(stamps', id) = StampOf(stamps, id)]_vars

\* a read has found an entry of age CacheTtl, the least age that is expired,
\* and has popped it from _cache
C22_Witness ==
    \E t \in Threads :
        /\ threads[t].pc = "expired"
        /\ lock = t
        /\ Age(stamps, threads[t].id, now) = CacheTtl
        /\ threads[t].id \notin DOMAIN cache

\* C23: after every insertion into the cache the cache holds at most CacheCap
\* entries, and when the insertion brought it above CacheCap the entries
\* removed are EvictCount entries none of which was stored later than an
\* entry that is kept.
C23_OldestEvicted ==
    [][\A t \in Threads :
         (threads[t].pc = "shrink" /\ threads'[t].pc = "next") =>
            LET removed == DOMAIN cache \ DOMAIN cache'
            IN  /\ Cardinality(DOMAIN cache') <= CacheCap
                /\ DOMAIN cache' \subseteq DOMAIN cache
                /\ IF Cardinality(DOMAIN cache) > CacheCap
                   THEN /\ Cardinality(removed) = EvictCount
                        /\ removed \cap Stamped(stamps') = {}
                        /\ \A r \in removed, k \in DOMAIN cache' :
                              StampOf(stamps, r) <= StampOf(stamps, k)
                   ELSE removed = {}]_vars

\* an insertion has brought the cache above CacheCap and entries were
\* removed, while the cache holds entries stored at different times
C23_Witness ==
    /\ lock = NoThread
    /\ Cardinality(DOMAIN cache) = CacheCap + 1 - EvictCount
    /\ \E i, j \in 1..Len(stamps) : stamps[i].at < stamps[j].at

\* C24: after any sequence of calls of the operations of the caching layer
\* (decorated operations, get_recent_cashbooks_optimized, search_cashbooks),
\* returning or raising, the list of metrics holds at most MetricsCap entries.
C24_MetricsCapped == Len(metrics) <= MetricsCap

\* the name under which a public operation of the caching layer is measured
OperationName(op) ==
    CASE op = "recent" -> "get_recent_cashbooks_optimized"
      [] op = "page" -> "get_all_cashbooks_paginated"
      [] op = "search" -> "search_cashbooks"

\* C26: every call of get_recent_cashbooks_optimized, of
\* get_all_cashbooks_paginated and of search_cashbooks that returns appends
\* exactly one metric, named after the operation.
C26_OneMetricPerCall ==
    [][(answer' # answer /\ answer'.op \in {"recent", "page", "search"})
       => /\ Len(metrics') = Len(metrics) + 1
          /\ SubSeq(metrics', 1, Len(metrics)) = metrics
          /\ metrics'[Len(metrics')] = OperationName(answer'.op)]_vars

\* C25: a save that fails at any of its steps leaves in the data directory no
\* temporary file that it created, and the call that saved raises
\* FileOperationError, never DataCorruptionError.
C25_FailedSaveLeavesNoTemp ==
    [][/\ tmpFiles' = tmpFiles
       /\ (ops' = ops + 1 /\ last'.op # "none")
            => last'.result \in {"ok", "false", "ValueError", "FileOperationError"}]_vars

\* the records a cashbooks.json holds: none when the file does not exist
RecordContent(f) ==
    IF f.kind = "absent" THEN CashbooksJson(EmptyMap).data
    ELSE IF f.kind = "json" THEN f.data
    ELSE f

\* C27: backup_data, returning or failing at any step, leaves the record map,
\* recent_activity, categories and the records in cashbooks.json as they
\* were; of the state of the store it changes last_backup at most, and only
\* once the backup file is written.
C27_BackupChangesNothingElse ==
    [][(ops' = ops + 1 /\ last'.op = "backup")
       => /\ cashbooks' = cashbooks
          /\ metadata' = [metadata EXCEPT !.last_backup = metadata'.last_backup]
          /\ RecordContent(cashbooksFile') = RecordContent(cashbooksFile)
          /\ metadata'.last_backup # metadata.last_backup
               => \E b \in backups' : b.ts = now /\ b.content.kind = "json"]_vars

\* C28: loading a cashbooks.json that parses as a keyed collection of which
\* some entries fail to decode or validate gives the store exactly the entries
\* that decode and validate, and does not enter the recovery from corruption
\* (nothing is written under corrupted_backups/).
C28_BadEntriesSkipped ==
    [][(/\ phase = "start"
        /\ phase' # "start"
        /\ cashbooksFile.kind = "json"
        /\ LoadMetadata(metadataFile).err = "ok"
        /\ \E k \in DOMAIN cashbooksFile.data : FromDict(cashbooksFile.data[k]).err # "ok")
       => /\ phase' = "loaded"
          /\ cashbooks' = ValidEntries(cashbooksFile.data)
          /\ corruptedBackups' = corruptedBackups]_vars

\* ------------------------------------- calls on a store started empty
\* the store is constructed on a directory that creates on an empty store
\* have written
CallsInit ==
    /\ LayerAtRest
    /\ \E d \in {SavedStore(0), SavedStore(2), OneCall(SavedStore(RecentCap + 1))} :
          LoadedOn(d)

CallsNext ==
    \/ /\ \E name \in NameInputs, category \in CategoryInputs, out \in SaveOutcomes :
             Create(name, category, out)
       /\ UNCHANGED layerVars
    \/ /\ \E id \in IdInputs, changes \in FieldChanges, out \in SaveOutcomes :
             Update(id, changes, out)
       /\ UNCHANGED layerVars
    \/ /\ \E id \in IdInputs, out \in SaveOutcomes : Delete(id, out)
       /\ UNCHANGED layerVars

CallsSpec == CallsInit /\ [][CallsNext]_vars

\* the place of x in the list s
IndexOf(s, x) == CHOOSE i \in 1..Len(s) : s[i] = x

\* C29: after any sequence of create, update and delete calls, raising or
\* not, the ids of recent_activity are in the order in which
\* get_all_cashbooks() lists their records (by last_modified, newest first).
C29_RecentInModifiedOrder ==
    (phase = "loaded" /\ last.op \in {"create", "update", "delete"}) =>
        \A i, j \in 1..Len(metadata.recent_activity) :
            (/\ i < j
             /\ metadata.recent_activity[i] \in DOMAIN cashbooks
             /\ metadata.recent_activity[j] \in DOMAIN cashbooks)
            => IndexOf(GetAll(cashbooks), metadata.recent_activity[i])
                 < IndexOf(GetAll(cashbooks), metadata.recent_activity[j])

\* C30: after any sequence of create, update and delete calls that all
\* succeeded, recent_activity holds min(RecentCap, number of records) ids, and
\* get_recent_cashbooks(limit) returns min(limit, number of records) records
\* for 0 <= limit <= RecentCap.
C30_RecentIsFull ==
    (phase = "loaded" /\ history = "ok") =>
        LET n == Cardinality(DOMAIN cashbooks)
        IN  /\ Len(metadata.recent_activity) = Min(RecentCap, n)
            /\ \A limit \in 0..RecentCap :
                  Len(GetRecent(cashbooks, metadata, limit)) = Min(limit, n)

====
